---- MODULE Spec2Model ----
(***************************************************************************)
(* Model of the dataset quality-metrics and change-tracking core:          *)
(* DataManager (main.go) with ImportCSV, UpdateItem, UpdateMetadata,       *)
(* UpdateMetrics, calculateDistributionScore, calculateBiasMetrics, the    *)
(* "Refresh Analysis" handler, and the quick-label helper setLabel of the  *)
(* review window.                                                          *)
(*                                                                         *)
(* float64 values are modelled as exact rationals plus the two IEEE        *)
(* specials the code can produce (NaN from 0/0, +Inf from 1/0).  A Go      *)
(* panic is modelled as an outcome of the call: the store keeps whatever   *)
(* the handler had written through its pointer before the panic.           *)
(***************************************************************************)
EXTENDS Integers, Sequences, FiniteSets, TLC

VARIABLES Dataset, Metadata, Metrics, CurrentUser, call, clock, counts, score

vars == <<Dataset, Metadata, Metrics, CurrentUser, call, clock, counts, score>>

(***************************************************************************)
(* Bounds of the model.                                                    *)
(***************************************************************************)
\* largest number of items the store is grown to
MaxItems == 2
\* largest number of calls made on the DataManager in one behaviour
MaxCalls == 2
\* largest number of data rows of one imported file
MaxRows == 2
\* largest number of entries of one update map
MaxFields == 1
\* largest occurrence count of one label given to calculateDistributionScore
MaxCount == 9

(***************************************************************************)
(* float64: [k |-> "num", n, d] is the rational n/d in lowest terms with   *)
(* d > 0; "nan" and "inf" are NaN and +Inf.  -Inf never arises: the only   *)
(* division by zero with a non-zero numerator is 1.0/0.                    *)
(***************************************************************************)
RECURSIVE GCD(_, _)
GCD(a, b) == IF b = 0 THEN a ELSE GCD(b, a % b)

IAbs(x) == IF x < 0 THEN -x ELSE x

Num(n, d) ==
    LET s == IF d < 0 THEN -1 ELSE 1
        g == GCD(IAbs(n), IAbs(d))
    IN  [k |-> "num", n |-> (s * n) \div g, d |-> (s * d) \div g]

Float(i) == [k |-> "num", n |-> i, d |-> 1]

NaN == [k |-> "nan", n |-> 0, d |-> 1]

Inf == [k |-> "inf", n |-> 1, d |-> 1]

IsNaN(x) == x.k = "nan"

FAdd(x, y) ==
    IF x.k = "nan" \/ y.k = "nan" THEN NaN
    ELSE IF x.k = "inf" \/ y.k = "inf" THEN Inf
    ELSE Num(x.n * y.d + y.n * x.d, x.d * y.d)

FSub(x, y) ==
    IF x.k = "nan" \/ y.k = "nan" THEN NaN
    ELSE IF x.k = "inf" /\ y.k = "inf" THEN NaN
    ELSE IF x.k = "inf" \/ y.k = "inf" THEN Inf
    ELSE Num(x.n * y.d - y.n * x.d, x.d * y.d)

FMul(x, y) ==
    IF x.k = "nan" \/ y.k = "nan" THEN NaN
    ELSE IF x.k = "inf" \/ y.k = "inf"
         THEN IF (x.k = "num" /\ x.n = 0) \/ (y.k = "num" /\ y.n = 0) THEN NaN ELSE Inf
    ELSE Num(x.n * y.n, x.d * y.d)

FDiv(x, y) ==
    IF x.k = "nan" \/ y.k = "nan" THEN NaN
    ELSE IF x.k = "inf" THEN (IF y.k = "inf" THEN NaN ELSE Inf)
    ELSE IF y.k = "inf" THEN Float(0)
    ELSE IF y.n = 0 THEN (IF x.n = 0 THEN NaN ELSE Inf)
    ELSE Num(x.n * y.d, x.d * y.n)

FAbs(x) == IF x.k = "num" THEN Num(IAbs(x.n), x.d) ELSE x

\* x < y on floats; every comparison with NaN is false
FLess(x, y) ==
    /\ x.k # "nan" /\ y.k # "nan"
    /\ \/ x.k = "num" /\ y.k = "inf"
       \/ x.k = "num" /\ y.k = "num" /\ x.n * y.d < y.n * x.d

FLeq(x, y) == x.k # "nan" /\ y.k # "nan" /\ (x = y \/ FLess(x, y))

RECURSIVE FSum(_, _)
FSum(f, S) ==
    IF S = {} THEN Float(0)
    ELSE LET e == CHOOSE e \in S : TRUE IN FAdd(f[e], FSum(f, S \ {e}))

RECURSIVE ISum(_, _)
ISum(f, S) ==
    IF S = {} THEN 0
    ELSE LET e == CHOOSE e \in S : TRUE IN f[e] + ISum(f, S \ {e})

(***************************************************************************)
(* Strings.  The model's strings come from a small alphabet; StringOrder   *)
(* lists it in Go's string order (byte-wise), which mapKeys sorts by.      *)
(***************************************************************************)
StringOrder == <<"", "a", "a,b", "b", "negative", "neutral", "positive">>

Rank(s) == CHOOSE i \in 1..Len(StringOrder) : StringOrder[i] = s

\* strings.Split(s, ","): on the alphabet only "a,b" holds a comma;
\* a string without one (the empty string too) gives a one-element slice
Split(s) == IF s = "a,b" THEN <<"a", "b">> ELSE <<s>>

\* strings.ToLower(strings.TrimSpace(header)) on the header alphabet
ToLowerTrim(h) ==
    CASE h = " Label" -> "label"
      [] h = "TAGS"   -> "tags"
      [] OTHER        -> h

RECURSIVE JoinSpace(_)
JoinSpace(l) ==
    IF Len(l) = 0 THEN ""
    ELSE IF Len(l) = 1 THEN l[1]
    ELSE l[1] \o " " \o JoinSpace(Tail(l))

\* an interface{} value: a string or a []string
StrV(s) == [kind |-> "string", str |-> s, list |-> <<>>]

ListV(l) == [kind |-> "strings", str |-> "", list |-> l]

BoolV(b) == [kind |-> "bool", str |-> IF b THEN "true" ELSE "false", list |-> <<>>]

\* fmt.Sprintf("%v", v): a string prints as itself, a []string as [e1 e2 ...],
\* a bool as true / false
Sprint(v) ==
    IF v.kind = "strings" THEN "[" \o JoinSpace(v.list) \o "]" ELSE v.str

(***************************************************************************)
(* DataItem, ChangeRecord, DatasetMetadata, MetricsData.                   *)
(* Confidence, VerifiedBy and ReviewStatus are never read or written by    *)
(* any function of the core and are left out of the item record.           *)
(***************************************************************************)
ChangeRecord(now, user, field, old, new) ==
    [Timestamp |-> now, User |-> user, Field |-> field,
     OldValue |-> old, NewValue |-> new]

\* the empty map[string]float64 / map[string]int
EmptyMap == [x \in {} |-> 0]

\* NewDataManager: empty Dataset, Metadata{Version: 1, LastModified: now},
\* zero-valued Metrics, CurrentUser ""
NewMetadata ==
    [Name |-> "", Version |-> 1, LastModified |-> 0, TotalItems |-> 0,
     VerifiedItems |-> 0, Labels |-> <<>>, Categories |-> <<>>, Tags |-> <<>>]

NewMetrics ==
    [Accuracy |-> Float(0), F1Score |-> Float(0), DatasetSize |-> 0,
     VerifiedPct |-> Float(0), LabelDistribution |-> EmptyMap,
     QualityScore |-> Float(0), BiasMetrics |-> EmptyMap]

Range(s) == {s[i] : i \in 1..Len(s)}

\* mapKeys: the keys, sorted by fmt.Sprint(key), i.e. in string order
RECURSIVE mapKeys(_)
mapKeys(S) ==
    IF S = {} THEN <<>>
    ELSE LET m == CHOOSE m \in S : \A o \in S : Rank(m) <= Rank(o)
         IN  <<m>> \o mapKeys(S \ {m})

\* labelCounts[item.Label]++ over the dataset
LabelCounts(ds) ==
    [l \in {ds[i].Label : i \in 1..Len(ds)} |->
        Cardinality({i \in 1..Len(ds) : ds[i].Label = l})]

\* textLengths[item.Label] += float64(len(item.Text))
TextLengths(ds) ==
    [l \in {ds[i].Label : i \in 1..Len(ds)} |->
        LET idx == {i \in 1..Len(ds) : ds[i].Label = l}
        IN  ISum([i \in idx |-> Len(ds[i].Text)], idx)]

calculateDistributionScore(cnt) ==
    IF DOMAIN cnt = {} THEN Float(0)
    ELSE LET n        == Float(Cardinality(DOMAIN cnt))
             total    == ISum(cnt, DOMAIN cnt)
             expected == FDiv(Float(total), n)
             sq       == [l \in DOMAIN cnt |->
                            LET diff == FSub(Float(cnt[l]), expected)
                            IN  FMul(diff, diff)]
             deviation    == FDiv(FSum(sq, DOMAIN cnt), n)
             maxDeviation == FMul(expected, expected)
         IN  FMul(FSub(Float(1), FDiv(deviation, maxDeviation)), Float(100))

calculateBiasMetrics(ds) ==
    LET labelCounts == LabelCounts(ds)
        textLengths == TextLengths(ds)
        labels      == DOMAIN labelCounts
        total       == Len(ds)
        expectedPct == FDiv(Float(1), Float(Cardinality(labels)))
        dev         == [l \in labels |->
                          FAbs(FSub(FDiv(Float(labelCounts[l]), Float(total)),
                                    expectedPct))]
        distributionBias == FSum(dev, labels)
        lengthKeys  == {"text_length_" \o l : l \in labels}
    IN  [key \in lengthKeys \cup {"distribution_bias"} |->
            IF key = "distribution_bias"
            THEN FDiv(distributionBias, Float(Cardinality(labels)))
            ELSE LET l == CHOOSE l \in labels : "text_length_" \o l = key
                 IN  FDiv(Float(textLengths[l]), Float(labelCounts[l]))]

\* UpdateMetrics, reading the Metadata that UpdateMetadata has just written
UpdateMetrics(ds, md, mx, labelCounts) ==
    LET verifiedPct ==
            FMul(FDiv(Float(md.VerifiedItems), Float(md.TotalItems)), Float(100))
        distributionScore == calculateDistributionScore(labelCounts)
    IN  [mx EXCEPT !.DatasetSize = Len(ds),
                   !.VerifiedPct = verifiedPct,
                   !.LabelDistribution = labelCounts,
                   !.QualityScore =
                       FDiv(FAdd(verifiedPct, distributionScore), Float(2)),
                   !.BiasMetrics = calculateBiasMetrics(ds)]

\* UpdateMetadata without its trailing UpdateMetrics call
RecomputeMetadata(ds, md, now) ==
    [md EXCEPT !.LastModified = now,
               !.TotalItems = Len(ds),
               !.VerifiedItems =
                   Cardinality({i \in 1..Len(ds) : ds[i].UserVerified}),
               !.Labels = mapKeys({ds[i].Label : i \in 1..Len(ds)}),
               !.Categories = mapKeys({ds[i].Category : i \in 1..Len(ds)}),
               !.Tags = mapKeys(UNION {Range(ds[i].Tags) : i \in 1..Len(ds)})]

\* UpdateMetadata: the new <<Metadata, Metrics>>
UpdateMetadata(ds, md, mx, now) ==
    LET md2 == RecomputeMetadata(ds, md, now)
    IN  <<md2, UpdateMetrics(ds, md2, mx, LabelCounts(ds))>>

(***************************************************************************)
(* ImportCSV.  The input is the file as encoding/csv reads it: a header    *)
(* record (<<>> when the file has none, so that the first Read fails) and  *)
(* the data records; a record whose field count differs from the header's  *)
(* makes Read return csv.ErrFieldCount.                                    *)
(***************************************************************************)
Cells == {"a,b"}

Headers ==
    {<<"text", " Label">>, <<"category", "TAGS">>, <<"label", " Label">>, <<"notes">>}

\* a record with one field too many
BadRow(n) == [i \in 1..(n + 1) |-> "positive"]

RowsFor(n) ==
    UNION {[1..k -> [1..n -> Cells] \cup {BadRow(n)}] : k \in 0..MaxRows}

\* headerMap[strings.ToLower(strings.TrimSpace(header))] = i: the last
\* column of a name wins
HeaderMap(headers) ==
    [h \in {ToLowerTrim(headers[i]) : i \in 1..Len(headers)} |->
        CHOOSE i \in 1..Len(headers) :
            /\ ToLowerTrim(headers[i]) = h
            /\ \A j \in 1..Len(headers) : ToLowerTrim(headers[j]) = h => j <= i]

\* a bug NextID could have: the ID is the position counted from 0
NextIDFromZero(ds) == Len(ds)

\* ID: len(dm.Dataset) + 1
NextID(ds) == Len(ds) + 1

Column(hm, record, name) ==
    IF name \in DOMAIN hm THEN record[hm[name]] ELSE ""

NewItem(ds, hm, record, now) ==
    [ID |-> NextID(ds),
     Text |-> Column(hm, record, "text"),
     Category |-> Column(hm, record, "category"),
     Label |-> Column(hm, record, "label"),
     Tags |-> IF "tags" \in DOMAIN hm THEN Split(record[hm["tags"]]) ELSE <<>>,
     UserVerified |-> FALSE,
     ModelPreds |-> EmptyMap,
     LastUpdated |-> now,
     Version |-> 0,
     History |-> <<>>]

\* the row loop: the store after it, and whether a Read failed
RECURSIVE ReadRows(_, _, _, _, _)
ReadRows(ds, hm, nfields, rows, now) ==
    IF rows = <<>> THEN [ds |-> ds, failed |-> FALSE]
    ELSE IF Len(Head(rows)) # nfields THEN [ds |-> ds, failed |-> TRUE]
    ELSE ReadRows(Append(ds, NewItem(ds, hm, Head(rows), now)),
                  hm, nfields, Tail(rows), now)

NoCall ==
    [op |-> "", index |-> -1, updates |-> EmptyMap, label |-> "",
     result |-> "", err |-> "", n0 |-> 0]

ImportCSV(headers, rows) ==
    /\ clock < MaxCalls
    /\ clock' = clock + 1
    /\ UNCHANGED <<CurrentUser, counts, score>>
    /\ LET now == clock + 1
           c   == [NoCall EXCEPT !.op = "ImportCSV", !.n0 = Len(Dataset)]
       IN  IF headers = <<>>
           THEN /\ UNCHANGED <<Dataset, Metadata, Metrics>>
                /\ call' = [c EXCEPT !.result = "error",
                                     !.err = "error reading CSV headers"]
           ELSE LET r == ReadRows(Dataset, HeaderMap(headers), Len(headers), rows, now)
                IN  /\ Len(r.ds) <= MaxItems
                    /\ Dataset' = r.ds
                    /\ IF r.failed
                       THEN /\ UNCHANGED <<Metadata, Metrics>>
                            /\ call' = [c EXCEPT !.result = "error",
                                                 !.err = "error reading CSV row"]
                       ELSE /\ Metadata' = UpdateMetadata(r.ds, Metadata, Metrics, now)[1]
                            /\ Metrics' = UpdateMetadata(r.ds, Metadata, Metrics, now)[2]
                            /\ call' = [c EXCEPT !.result = "ok"]

(***************************************************************************)
(* UpdateItem.  updates is a map[string]interface{}; order is the order in *)
(* which range visits its keys, which Go leaves unspecified.               *)
(***************************************************************************)
UpdateKeys == {"label", "tags", "category", "Label", "bogus"}

Values == {StrV("negative"), ListV(<<"a", "b">>)}

UpdateMaps ==
    UNION {[K -> Values] : K \in {K \in SUBSET UpdateKeys : Cardinality(K) <= MaxFields}}

Orders(S) == {o \in [1..Cardinality(S) -> S] : Range(o) = S}

\* the type assertions value.(string) / value.([]string) of the switch
AssertionHolds(field, value) ==
    CASE field = "label"    -> value.kind = "string"
      [] field = "tags"     -> value.kind = "strings"
      [] field = "category" -> value.kind = "string"
      [] OTHER              -> TRUE

\* a bug the switch could have: assigning a label also marks the item verified
ApplyFieldVerifying(item, field, value) ==
    CASE field = "label"    -> [item EXCEPT !.Label = value.str, !.UserVerified = TRUE]
      [] field = "tags"     -> [item EXCEPT !.Tags = value.list]
      [] field = "category" -> [item EXCEPT !.Category = value.str]
      [] OTHER              -> item

\* the switch on field
ApplyField(item, field, value) ==
    CASE field = "label"    -> [item EXCEPT !.Label = value.str]
      [] field = "tags"     -> [item EXCEPT !.Tags = value.list]
      [] field = "category" -> [item EXCEPT !.Category = value.str]
      [] OTHER              -> item

\* reflect.ValueOf(oldItem).FieldByName(name): the struct's fields are named
\* Label, Tags, Category, Text, UserVerified, ...; the lookup is exact, and
\* a name that is no field gives the zero Value
FieldByName(item, name) ==
    CASE name = "Label"        -> [found |-> TRUE, val |-> StrV(item.Label)]
      [] name = "Category"     -> [found |-> TRUE, val |-> StrV(item.Category)]
      [] name = "Text"         -> [found |-> TRUE, val |-> StrV(item.Text)]
      [] name = "Tags"         -> [found |-> TRUE, val |-> ListV(item.Tags)]
      [] name = "UserVerified" -> [found |-> TRUE, val |-> BoolV(item.UserVerified)]
      [] OTHER                 -> [found |-> FALSE, val |-> StrV("")]

\* item.History = append(item.History, record)
RecordChange(item, record) ==
    [item EXCEPT !.History = Append(@, record)]

\* the range loop: the item as the loop leaves it, and the panic that ended
\* it ("" when it ran to its end).  Interface() of the zero Value panics.
RECURSIVE RangeUpdates(_, _, _, _, _, _)
RangeUpdates(item, oldItem, updates, order, user, now) ==
    IF order = <<>> THEN [item |-> item, panic |-> ""]
    ELSE LET field == Head(order)
             value == updates[field]
             set   == ApplyField(item, field, value)
             old   == FieldByName(oldItem, field)
         IN  IF ~AssertionHolds(field, value)
             THEN [item |-> item, panic |-> "interface conversion"]
             ELSE IF ~old.found
             THEN [item |-> set,
                   panic |-> "reflect: call of reflect.Value.Interface on zero Value"]
             ELSE RangeUpdates(
                      RecordChange(set, ChangeRecord(now, user, field,
                                                     Sprint(old.val), Sprint(value))),
                      oldItem, updates, Tail(order), user, now)

\* item.LastUpdated = time.Now(); item.Version++
Finish(item, now) ==
    [item EXCEPT !.LastUpdated = now, !.Version = @ + 1]

\* index counts from 0, as in the code
UpdateItem(index, updates, order) ==
    /\ clock < MaxCalls
    /\ clock' = clock + 1
    /\ UNCHANGED <<CurrentUser, counts, score>>
    /\ LET now == clock + 1
           c   == [NoCall EXCEPT !.op = "UpdateItem", !.index = index,
                                 !.updates = updates, !.n0 = Len(Dataset)]
       IN  IF index < 0 \/ index >= Len(Dataset)
           THEN /\ UNCHANGED <<Dataset, Metadata, Metrics>>
                /\ call' = [c EXCEPT !.result = "panic", !.err = "index out of range"]
           ELSE LET r == RangeUpdates(Dataset[index + 1], Dataset[index + 1],
                                      updates, order, CurrentUser, now)
                IN  IF r.panic # ""
                    THEN /\ Dataset' = [Dataset EXCEPT ![index + 1] = r.item]
                         /\ UNCHANGED <<Metadata, Metrics>>
                         /\ call' = [c EXCEPT !.result = "panic", !.err = r.panic]
                    ELSE LET ds == [Dataset EXCEPT ![index + 1] = Finish(r.item, now)]
                         IN  /\ Dataset' = ds
                             /\ Metadata' = UpdateMetadata(ds, Metadata, Metrics, now)[1]
                             /\ Metrics' = UpdateMetadata(ds, Metadata, Metrics, now)[2]
                             /\ call' = [c EXCEPT !.result = "ok"]

(***************************************************************************)
(* The review window's quick-label buttons call setLabel(currentIndex, l); *)
(* currentIndex is kept inside the dataset by the navigation handlers.     *)
(* The "Refresh Analysis" button calls dm.UpdateMetadata().                *)
(***************************************************************************)
QuickLabels == {"positive", "negative", "neutral"}

setLabel(index, label) ==
    /\ clock < MaxCalls
    /\ index \in 0..(Len(Dataset) - 1)
    /\ clock' = clock + 1
    /\ Dataset' = [Dataset EXCEPT ![index + 1] =
                      [@ EXCEPT !.Label = label,
                                !.UserVerified = TRUE,
                                !.LastUpdated = clock + 1]]
    /\ call' = [NoCall EXCEPT !.op = "setLabel", !.index = index, !.label = label,
                              !.result = "ok", !.n0 = Len(Dataset)]
    /\ UNCHANGED <<Metadata, Metrics, CurrentUser, counts, score>>

Refresh ==
    /\ clock < MaxCalls
    /\ clock' = clock + 1
    /\ Metadata' = UpdateMetadata(Dataset, Metadata, Metrics, clock + 1)[1]
    /\ Metrics' = UpdateMetadata(Dataset, Metadata, Metrics, clock + 1)[2]
    /\ call' = [NoCall EXCEPT !.op = "Refresh", !.result = "ok", !.n0 = Len(Dataset)]
    /\ UNCHANGED <<Dataset, CurrentUser, counts, score>>

(***************************************************************************)
(* Specifications.                                                         *)
(***************************************************************************)
Init ==
    /\ Dataset = <<>>
    /\ Metadata = NewMetadata
    /\ Metrics = NewMetrics
    /\ CurrentUser = ""
    /\ call = NoCall
    /\ clock = 0
    /\ counts = EmptyMap
    /\ score = Float(0)

DoImport ==
    \E headers \in Headers \cup {<<>>} :
        \E rows \in (IF headers = <<>> THEN {<<>>} ELSE RowsFor(Len(headers))) :
            ImportCSV(headers, rows)

DoUpdate ==
    \E index \in -1..Len(Dataset) :
        \E updates \in UpdateMaps :
            \E order \in Orders(DOMAIN updates) :
                UpdateItem(index, updates, order)

DoLabel ==
    \E index \in 0..(Len(Dataset) - 1) : \E label \in QuickLabels : setLabel(index, label)

Next == DoImport \/ DoUpdate \/ DoLabel \/ Refresh

Spec == Init /\ [][Next]_vars

\* the DataManager alone: ImportCSV and UpdateItem calls
NextCore == DoImport \/ DoUpdate

SpecCore == Init /\ [][NextCore]_vars

(***************************************************************************)
(* calculateDistributionScore as a pure function: the counts are drawn     *)
(* from the maps of up to three labels to counts in 1..MaxCount (and the   *)
(* empty map), and one step applies the function.                          *)
(***************************************************************************)
CountMaps == UNION {[L -> 1..MaxCount] : L \in SUBSET QuickLabels}

InitScore ==
    /\ Dataset = <<>>
    /\ Metadata = NewMetadata
    /\ Metrics = NewMetrics
    /\ CurrentUser = ""
    /\ call = NoCall
    /\ clock = 0
    /\ counts \in CountMaps
    /\ score = Float(0)

ComputeScore ==
    /\ call.op = ""
    /\ score' = calculateDistributionScore(counts)
    /\ call' = [NoCall EXCEPT !.op = "calculateDistributionScore", !.result = "ok"]
    /\ UNCHANGED <<Dataset, Metadata, Metrics, CurrentUser, clock, counts>>

SpecScore == InitScore /\ [][ComputeScore]_vars

(***************************************************************************)
(* Vocabulary of the properties.                                           *)
(***************************************************************************)
Recognized == {"label", "tags", "category"}

\* the step is a call of UpdateItem / setLabel
UpdateItemCalled == clock' = clock + 1 /\ call'.op = "UpdateItem"

SetLabelCalled == clock' = clock + 1 /\ call'.op = "setLabel"

\* the call's index is a valid index of the store as the call found it
IndexValid == call'.index >= 0 /\ call'.index < Len(Dataset)

\* the update map has only recognized fields, each with a value of its type
WellFormedUpdates ==
    /\ DOMAIN call'.updates \subseteq Recognized
    /\ \A f \in DOMAIN call'.updates : AssertionHolds(f, call'.updates[f])

\* the value an item holds in an updatable field
Held(item, f) ==
    CASE f = "label"    -> StrV(item.Label)
      [] f = "tags"     -> ListV(item.Tags)
      [] f = "category" -> StrV(item.Category)

IsPrefix(s, t) == Len(s) <= Len(t) /\ SubSeq(t, 1, Len(s)) = s

VerifiedCount(ds) == Cardinality({i \in 1..Len(ds) : ds[i].UserVerified})

(***************************************************************************)
(* C1: in every state reached by ImportCSV and UpdateItem calls,           *)
(* Metadata.TotalItems is the number of items of the store,                *)
(* Metadata.VerifiedItems the number of items with UserVerified set, and   *)
(* the counts of Metrics.LabelDistribution sum to Metadata.TotalItems.     *)
(***************************************************************************)
C1_MetadataConsistent ==
    /\ Metadata.TotalItems = Len(Dataset)
    /\ Metadata.VerifiedItems = VerifiedCount(Dataset)
    /\ ISum(Metrics.LabelDistribution, DOMAIN Metrics.LabelDistribution)
           = Metadata.TotalItems

(***************************************************************************)
(* C2: an UpdateItem call with a valid index and an update map over label, *)
(* tags, category leaves Metadata.TotalItems unchanged, raises the item's  *)
(* Version by exactly 1 and lengthens its History by exactly the number of *)
(* fields of the map.  The calls considered are those that find Metadata   *)
(* counting the store's items, so that a count left stale by an earlier    *)
(* failed import is not what refutes the statement.                        *)
(***************************************************************************)
C2_UpdateCounts ==
    [][(UpdateItemCalled /\ IndexValid /\ WellFormedUpdates
            /\ Metadata.TotalItems = Len(Dataset)) =>
          LET i == call'.index + 1
          IN  /\ Metadata'.TotalItems = Metadata.TotalItems
              /\ Dataset'[i].Version = Dataset[i].Version + 1
              /\ Len(Dataset'[i].History) =
                     Len(Dataset[i].History) + Cardinality(DOMAIN call'.updates)
      ]_vars

(***************************************************************************)
(* C3: an UpdateItem call whose map has a field outside label, tags,       *)
(* category fails with an UnknownFieldError and changes nothing: no field  *)
(* of the item, no Change Record, Version, LastUpdated, nor Metadata.       *)
(***************************************************************************)
C3_UnknownFieldRejected ==
    [][(UpdateItemCalled /\ IndexValid
            /\ ~(DOMAIN call'.updates \subseteq Recognized)) =>
          /\ call'.result = "error"
          /\ call'.err = "UnknownFieldError"
          /\ Dataset' = Dataset
          /\ Metadata' = Metadata
      ]_vars

(***************************************************************************)
(* C4: an UpdateItem call with an index that is negative or not less than  *)
(* the number of items returns an IndexOutOfRangeError to its caller and   *)
(* leaves every item, Metadata and Metrics unchanged.                      *)
(***************************************************************************)
C4_IndexErrorReturned ==
    [][(UpdateItemCalled /\ ~IndexValid) =>
          /\ call'.result = "error"
          /\ Dataset' = Dataset
          /\ Metadata' = Metadata
          /\ Metrics' = Metrics
      ]_vars

(***************************************************************************)
(* C5: an UpdateItem call with a valid index and an update map over label, *)
(* tags, category appends, for each field f of the map, exactly one Change *)
(* Record with Field f, OldValue the display form of the value the item    *)
(* held in f before the call, NewValue the display form of updates[f] and  *)
(* User the current user; nothing else is appended.                        *)
(***************************************************************************)
C5_ChangeRecorded ==
    [][(UpdateItemCalled /\ IndexValid /\ WellFormedUpdates) =>
          LET i      == call'.index + 1
              before == Dataset[i]
              after  == Dataset'[i]
              added  == SubSeq(after.History, Len(before.History) + 1,
                               Len(after.History))
          IN  /\ IsPrefix(before.History, after.History)
              /\ Len(added) = Cardinality(DOMAIN call'.updates)
              /\ \A f \in DOMAIN call'.updates :
                    Cardinality({k \in 1..Len(added) :
                        /\ added[k].Field = f
                        /\ added[k].OldValue = Sprint(Held(before, f))
                        /\ added[k].NewValue = Sprint(call'.updates[f])
                        /\ added[k].User = CurrentUser}) = 1
      ]_vars

(***************************************************************************)
(* C6: a quick-label action on item i sets its UserVerified, sets its      *)
(* Label to the assigned label, raises its Version by 1, appends exactly   *)
(* one Change Record with Field "label", and leaves Metadata.VerifiedItems *)
(* counting item i.                                                        *)
(***************************************************************************)
C6_QuickLabelRecorded ==
    [][SetLabelCalled =>
          LET i      == call'.index + 1
              before == Dataset[i]
              after  == Dataset'[i]
          IN  /\ after.UserVerified
              /\ after.Label = call'.label
              /\ after.Version = before.Version + 1
              /\ Len(after.History) = Len(before.History) + 1
              /\ IsPrefix(before.History, after.History)
              /\ after.History[Len(after.History)].Field = "label"
              /\ Metadata'.VerifiedItems = VerifiedCount(Dataset')
      ]_vars

(***************************************************************************)
(* C7: when Metadata and Metrics have been recomputed on a store with no   *)
(* items (an import of a header-only file, a Refresh of the empty store),  *)
(* Metrics.VerifiedPct is 0 and no metric is not-a-number.                 *)
(***************************************************************************)
C7_EmptyStoreMetrics ==
    (call.op \in {"ImportCSV", "Refresh"} /\ call.result = "ok" /\ Len(Dataset) = 0) =>
        /\ Metrics.VerifiedPct = Float(0)
        /\ ~IsNaN(Metrics.QualityScore)
        /\ \A key \in DOMAIN Metrics.BiasMetrics : ~IsNaN(Metrics.BiasMetrics[key])

(***************************************************************************)
(* C8: for every non-empty map of labels to positive counts the score of   *)
(* calculateDistributionScore lies in [0, 100], and it is 100 when all the *)
(* counts are equal.                                                       *)
(***************************************************************************)
C8_ScoreInRange ==
    (call.op = "calculateDistributionScore" /\ DOMAIN counts # {}) =>
        /\ FLeq(Float(0), score)
        /\ FLeq(score, Float(100))
        /\ (\A l, m \in DOMAIN counts : counts[l] = counts[m]) => score = Float(100)

(***************************************************************************)
(* C9: after any sequence of ImportCSV calls (failing ones too), UpdateItem*)
(* calls, quick-label actions and refreshes, the item at position k of the *)
(* store, counted from 0, has ID k+1; so the IDs are unique.               *)
(***************************************************************************)
C9_SequentialIDs ==
    \A k \in 0..(Len(Dataset) - 1) : Dataset[k + 1].ID = k + 1

\* an import that failed part-way after appending to a store that already had items
C9_Witness ==
    /\ call.op = "ImportCSV"
    /\ call.result = "error"
    /\ call.n0 >= 1
    /\ Len(Dataset) > call.n0

====
